---- MODULE Spec2Model ----
(***************************************************************************)
(* Model of the rent-versus-buy Monte Carlo simulation of src/simulate.py  *)
(* (with the parameter table of src/config.py).                            *)
(*                                                                         *)
(* Numbers.  Python floats are modelled as exact rationals <<num, den>>    *)
(* (den > 0, lowest terms), so every identity checked below is an identity *)
(* of the formulas the code evaluates, free of rounding.  A division by    *)
(* zero raises ZeroDivisionError in Python; the operators that divide      *)
(* return a record whose err field names the exception.                    *)
(*                                                                         *)
(* Years.  Python lists are 0-based, TLA+ sequences 1-based: year t of the *)
(* code is entry t + 1 of the modelled sequence.                           *)
(***************************************************************************)
EXTENDS Integers, Sequences, FiniteSets, TLC

VARIABLES
    pc,                   \* position of the running program
    fixed_params,         \* main: fixed_params (CONFIG["fixed_parameters"] + overrides)
    simulation_params,    \* run_simulation: simulation_params of the current trial
    homeowner,            \* run_simulation: what run_homeowner_simulation returned
    renter,               \* run_simulation: what run_renter_simulation returned
    net_worth,            \* run_simulation: what liquidate_all_assets returned
    homeowner_net_worths, \* main: homeowner_net_worths
    renter_net_worths,    \* main: renter_net_worths
    returned,             \* history: what each call of run_simulation returned
    report,               \* main: the statistics printed at the end
    n_draws,              \* number of random.gauss calls made so far
    error,                \* the exception that ended the program, or "none"
    out                   \* a mortgage function called on its own: arguments and result

vars == <<pc, fixed_params, simulation_params, homeowner, renter, net_worth,
          homeowner_net_worths, renter_net_worths, returned, report, n_draws, error,
          out>>

\* A value that was not supplied: Python's None (a missing key read with .get) or
\* the empty string an unanswered prompt leaves.  Both are falsy and neither is a
\* number; no rational has denominator 0.
NONE == <<0, 0>>

(***************************************************************************)
(* Float arithmetic, as exact rationals.                                   *)
(***************************************************************************)
\* Evaluation note: an operator that reads an argument several times is given a
\* value, not an expression, by binding the argument in a singleton set first
\* (CHOOSE r \in {F(x) : x \in {e}} : TRUE is F(e) with e evaluated once).
RECURSIVE GCD(_, _)
GCD(a, b) == IF b = 0 THEN a ELSE CHOOSE g \in {GCD(y, r) : y \in {b}, r \in {a % b}} : TRUE

Abs(a) == IF a < 0 THEN -a ELSE a

\* n / d in lowest terms with a positive denominator, for d # 0
Reduce(n, d, g) == IF d < 0 THEN <<-(n \div g), -(d \div g)>> ELSE <<n \div g, d \div g>>

Rat(n, d) == CHOOSE r \in {Reduce(x, y, GCD(Abs(x), Abs(y))) : x \in {n}, y \in {d}} : TRUE

Num(n) == <<n, 1>>

Zero == Num(0)

One == Num(1)

AddFrac(a, b, g) == Rat(a[1] * (b[2] \div g) + b[1] * (a[2] \div g), (a[2] \div g) * b[2])

RAdd(a, b) == CHOOSE r \in {AddFrac(x, y, GCD(x[2], y[2])) : x \in {a}, y \in {b}} : TRUE

RNeg(a) == CHOOSE r \in {<<-x[1], x[2]>> : x \in {a}} : TRUE

RSub(a, b) == RAdd(a, RNeg(b))

MulFrac(a, b, g1, g2) == <<(a[1] \div g1) * (b[1] \div g2), (a[2] \div g2) * (b[2] \div g1)>>

MulNonZero(a, b) == IF a[1] = 0 \/ b[1] = 0 THEN Zero ELSE MulFrac(a, b, GCD(Abs(a[1]), b[2]), GCD(Abs(b[1]), a[2]))

RMul(a, b) == CHOOSE r \in {MulNonZero(x, y) : x \in {a}, y \in {b}} : TRUE

\* 1 / a, for a # 0
RInv(a) == CHOOSE r \in {IF x[1] < 0 THEN <<-x[2], -x[1]>> ELSE <<x[2], x[1]>> : x \in {a}} : TRUE

\* a / b, for b # 0
RDiv(a, b) == RMul(a, RInv(b))

RLt(a, b) == RSub(a, b)[1] < 0

RLe(a, b) == RSub(a, b)[1] <= 0

RMax(a, b) == CHOOSE r \in {IF RLt(x, y) THEN y ELSE x : x \in {a}, y \in {b}} : TRUE

RECURSIVE RPowNat(_, _)
RPowNat(x, n) == IF n = 0 THEN One ELSE RMul(x, RPowNat(x, n - 1))

\* x ** n for an integral exponent n; defined unless x = 0 and n < 0
RPow(x, n) == IF n >= 0 THEN RPowNat(x, n) ELSE RInv(RPowNat(x, -n))

MONTHS_PER_YEAR == 12

(***************************************************************************)
(* Mortgage model.                                                         *)
(***************************************************************************)
\* (1 + i) ** n raises ZeroDivisionError for a zero base and a negative exponent
PowRaises(i, n) == n < 0 /\ RAdd(One, i) = Zero

\* m, once p, i, n and x = (1 + i) ** n are known
payment_from(p, i, n, x) == IF RSub(x, One) = Zero THEN [err |-> "ZeroDivisionError"] ELSE [err |-> "none", m |-> RDiv(RMul(p, RMul(i, x)), RSub(x, One)), p |-> p, i |-> i, n |-> n]

payment_for(p, i, n) == IF PowRaises(i, n) THEN [err |-> "ZeroDivisionError"] ELSE CHOOSE r \in {payment_from(p, i, n, x) : x \in {RPow(RAdd(One, i), n)}} : TRUE

calculate_monthly_mortgage_principal_and_interest(property_price, mortgage_rate, loan_term_years, down_payment) ==
    CHOOSE r \in {payment_for(p, i, loan_term_years * MONTHS_PER_YEAR) :
                    p \in {RMul(property_price, RSub(One, down_payment))},
                    i \in {RDiv(mortgage_rate, Num(MONTHS_PER_YEAR))}} : TRUE

\* mutant: the two powers of the numerator exchanged
balance_from_swapped(p, xn, xs) == IF RAdd(Num(-1), xn) = Zero THEN [err |-> "ZeroDivisionError"] ELSE [err |-> "none", b |-> RDiv(RMul(p, RSub(xs, xn)), RAdd(Num(-1), xn))]

\* b, once xn = (1 + i) ** n and xs = (1 + i) ** s are known
balance_from(p, xn, xs) == IF RAdd(Num(-1), xn) = Zero THEN [err |-> "ZeroDivisionError"] ELSE [err |-> "none", b |-> RDiv(RMul(p, RSub(xn, xs)), RAdd(Num(-1), xn))]

calculate_remaining_mortgage_balance(p, i, n, s) ==
    IF PowRaises(i, n) \/ PowRaises(i, s) THEN [err |-> "ZeroDivisionError"]
    ELSE CHOOSE r \in {balance_from(p, xn, xs) :
                         xn \in {RPow(RAdd(One, i), n)},
                         xs \in {RPow(RAdd(One, i), s)}} : TRUE

(***************************************************************************)
(* Configuration (src/config.py).  The keys and their order are those of   *)
(* CONFIG once main has popped "fixed_parameters"; the means and standard  *)
(* deviations are small stand-ins for the configured ones, so that exact   *)
(* arithmetic stays within TLC's integers.                                 *)
(***************************************************************************)
ParamOrder ==
    << "mortgage_rate", "property_price", "annual_inflation",
       "annual_stock_market_return", "annual_housing_market_return",
       "annual_homeowner_cost", "annual_rental_market_price",
       "annual_rental_market_price_growth_rate", "annual_rental_cost",
       "annual_rental_cost_growth_rate", "amortized_annual_moving_cost",
       "amortized_annual_moving_saving" >>

ParamNames == {ParamOrder[k] : k \in DOMAIN ParamOrder}

CONFIG ==
    [mortgage_rate                          |-> [mean |-> Num(12),   std_dev |-> Num(6)],
     property_price                         |-> [mean |-> Rat(5, 2), std_dev |-> Rat(5, 4)],
     annual_inflation                       |-> [mean |-> Num(1),    std_dev |-> Rat(1, 2)],
     annual_stock_market_return             |-> [mean |-> Zero,      std_dev |-> Rat(1, 2)],
     annual_housing_market_return           |-> [mean |-> Rat(1, 2), std_dev |-> Rat(1, 2)],
     annual_homeowner_cost                  |-> [mean |-> Num(2),    std_dev |-> Num(1)],
     annual_rental_market_price             |-> [mean |-> Num(6),    std_dev |-> Num(1)],
     annual_rental_market_price_growth_rate |-> [mean |-> Rat(1, 2), std_dev |-> Rat(1, 2)],
     annual_rental_cost                     |-> [mean |-> Num(6),    std_dev |-> Num(1)],
     annual_rental_cost_growth_rate         |-> [mean |-> Num(1),    std_dev |-> Num(1)],
     amortized_annual_moving_cost           |-> [mean |-> Num(2),    std_dev |-> Num(1)],
     amortized_annual_moving_saving         |-> [mean |-> Num(3),    std_dev |-> Num(1)]]

\* "annual" in param_base_name
ContainsAnnual(name) == name \notin {"mortgage_rate", "property_price"}

\* "growth_rate" in param_base_name
ContainsGrowthRate(name) ==
    name \in {"annual_rental_market_price_growth_rate", "annual_rental_cost_growth_rate"}

\* f"{param_base_name}_growth_rate", for the names that have one in CONFIG
GrowthRateName ==
    [annual_rental_market_price |-> "annual_rental_market_price_growth_rate",
     annual_rental_cost         |-> "annual_rental_cost_growth_rate"]

HasGrowthRate(name) == name \in DOMAIN GrowthRateName

(***************************************************************************)
(* Parameter sampler.                                                      *)
(***************************************************************************)
\* Python truthiness of an optional number: None, "" and 0.0 are all false
Truthy(v) == v # NONE /\ v # Zero

\* fixed_params.get(name)
FixedGet(fixed, name) == IF name \in DOMAIN fixed THEN fixed[name] ELSE NONE

\* random.gauss(mu, sigma), for the standard deviate z the generator produces
gauss(mu, sigma, z) == RAdd(mu, RMul(sigma, Num(z)))

\* the mean after the "good"/"great" scenario shifts
shifted_mean(name, fixed) ==
    LET mean == CONFIG[name].mean
        sd   == CONFIG[name].std_dev
    IN  IF name = "mortgage_rate"
        THEN IF fixed.assume_great_loan_found THEN RSub(mean, RMul(sd, Num(2)))
             ELSE IF fixed.assume_good_loan_found THEN RSub(mean, sd)
             ELSE mean
        ELSE IF name = "annual_housing_market_return"
        THEN IF fixed.assume_great_housing_growth THEN RAdd(mean, RMul(sd, Num(2)))
             ELSE IF fixed.assume_good_housing_growth THEN RAdd(mean, sd)
             ELSE mean
        ELSE mean

\* whether the first pass draws one value per year for this name
DrawnPerYear(name) == ContainsAnnual(name) /\ ~HasGrowthRate(name)

\* mutant: the growth-rate series drawn for every year, not for n_years - 1
n_years_to_generate_every_year(name, fixed) == IF fixed.n_years < 0 THEN 0 ELSE fixed.n_years

n_years_to_generate(name, fixed) ==
    LET n == IF ContainsGrowthRate(name) THEN fixed.n_years - 1 ELSE fixed.n_years
    IN  IF n < 0 THEN 0 ELSE n

\* The first loop's entry for one name.  z[name] holds the standard deviates the
\* generator yields for this name's draws, in order.  A value is tagged with its
\* Python type: a list of floats or a single float.
first_pass_value(name, fixed, z) ==
    IF Truthy(FixedGet(fixed, name))
    THEN [list |-> FALSE, v |-> FixedGet(fixed, name)]
    ELSE LET mean == shifted_mean(name, fixed)
             sd   == CONFIG[name].std_dev
         IN  IF DrawnPerYear(name)
             THEN [list |-> TRUE,
                   v |-> [t \in 1..n_years_to_generate(name, fixed) |->
                            gauss(mean, sd, z[name][t])]]
             ELSE [list |-> FALSE, v |-> gauss(mean, sd, z[name][1])]

\* number of random.gauss calls the first loop makes for one name
n_gauss_calls(name, fixed) ==
    IF Truthy(FixedGet(fixed, name)) THEN 0
    ELSE IF DrawnPerYear(name) THEN n_years_to_generate(name, fixed)
    ELSE 1

RECURSIVE SumCalls(_, _)
SumCalls(fixed, k) ==
    IF k = 0 THEN 0 ELSE SumCalls(fixed, k - 1) + n_gauss_calls(ParamOrder[k], fixed)

total_gauss_calls(fixed) == SumCalls(fixed, Len(ParamOrder))

\* Whether the year being appended is one where the renter moves
is_rental_move(name, param_value, fixed) ==
    name = "annual_rental_cost" /\ (Len(param_value) + 1) % fixed.n_years_rental_move = 0

\* The inner loop of the second pass after k iterations: param_value.  The
\* running current_param_value is always the last entry of param_value.
\* mutant: the anchor read at index i, the year before the one being appended
next_param_value_stale_anchor(name, sp, fixed, param_value, i) ==
    IF is_rental_move(name, param_value, fixed)
    THEN sp["annual_rental_market_price"].v[i + 1]
    ELSE RMul(param_value[Len(param_value)], RAdd(One, sp[GrowthRateName[name]].v[i + 1]))

\* One iteration of the inner loop of the second pass, for index i (0-based) of
\* the growth rates: the value appended to param_value.  The running
\* current_param_value is always the last entry of param_value.
next_param_value(name, sp, fixed, param_value, i) ==
    IF is_rental_move(name, param_value, fixed)
    THEN sp["annual_rental_market_price"].v[(i + 1) + 1]
    ELSE RMul(param_value[Len(param_value)], RAdd(One, sp[GrowthRateName[name]].v[i + 1]))

\* param_value after the first k iterations of the inner loop
RECURSIVE expand_series(_, _, _, _)
expand_series(name, sp, fixed, k) ==
    IF k = 0 THEN <<sp[name].v>>
    ELSE CHOOSE r \in {Append(pv, next_param_value(name, sp, fixed, pv, k - 1)) :
                         pv \in {expand_series(name, sp, fixed, k - 1)}} : TRUE

\* One iteration of the second loop: the entry for `name` is replaced in place
second_pass_step(sp, name, fixed) ==
    IF ~HasGrowthRate(name) THEN sp
    ELSE [sp EXCEPT ![name] =
            [list |-> TRUE,
             v |-> expand_series(name, sp, fixed, Len(sp[GrowthRateName[name]].v))]]

\* The second loop over the first k names, in insertion order
RECURSIVE second_pass(_, _, _)
second_pass(sp, fixed, k) ==
    IF k = 0 THEN sp
    ELSE CHOOSE r \in {second_pass_step(prev, ParamOrder[k], fixed) :
                         prev \in {second_pass(sp, fixed, k - 1)}} : TRUE

\* simulation_params as the first loop leaves it
first_pass(fixed, z) == [name \in ParamNames |-> first_pass_value(name, fixed, z)]

generate_params(fixed, z) ==
    CHOOSE r \in {second_pass(sp, fixed, Len(ParamOrder)) : sp \in {first_pass(fixed, z)}} : TRUE

(***************************************************************************)
(* Projections.  A function that can raise returns a record whose err      *)
(* field is "none" or names the exception; the caller propagates it.       *)
(***************************************************************************)
\* annual_income * (1.0 - taxes_and_nonhousing_cost_of_living_to_income_ratio)
net_income(annual_income, fixed) == RMul(annual_income, RSub(One, fixed.taxes_and_nonhousing_cost_of_living_to_income_ratio))

\* surplus_cash of year i (0-based) in calculate_stock_assets
surplus_cash(i, annual_income, annual_total_costs, fixed) ==
    IF i = 0
    THEN RAdd(RSub(net_income(annual_income, fixed), annual_total_costs[i + 1]), fixed.initial_net_worth)
    ELSE RSub(net_income(annual_income, fixed), annual_total_costs[i + 1])

\* mutant: a shortfall is taken out of the balance
invest_shortfall(current_stock_value, surplus) == RAdd(current_stock_value, surplus)

\* current_stock_value after the branch on surplus_cash
invest(current_stock_value, surplus) == IF RLt(Zero, surplus) THEN RAdd(current_stock_value, surplus) ELSE current_stock_value

\* One iteration of the loop of calculate_stock_assets, for year i (0-based) and
\* its surplus_cash: st.value is current_stock_value, st.warnings the years a
\* WARNING was printed for, st.balances current_stock_value after each year.
stock_year(st, i, surplus, grown) ==
    [value |-> grown,
     warnings |-> IF RLt(Zero, surplus) THEN st.warnings ELSE Append(st.warnings, i),
     balances |-> Append(st.balances, grown)]

stock_step(st, i, surplus, annual_stock_market_returns) ==
    CHOOSE r \in {stock_year(st, i, surplus, grown) :
                    grown \in {RMul(invest(st.value, surplus), RAdd(One, annual_stock_market_returns[i + 1]))}} : TRUE

\* The loop of calculate_stock_assets after its first k iterations
RECURSIVE stock_loop(_, _, _, _, _)
stock_loop(k, annual_income, annual_total_costs, fixed, annual_stock_market_returns) ==
    IF k <= 0 THEN [value |-> Zero, warnings |-> <<>>, balances |-> <<>>]
    ELSE CHOOSE r \in {stock_step(st, k - 1, surplus, annual_stock_market_returns) :
                         st \in {stock_loop(k - 1, annual_income, annual_total_costs, fixed, annual_stock_market_returns)},
                         surplus \in {surplus_cash(k - 1, annual_income, annual_total_costs, fixed)}} : TRUE

stock_result(st) == [err |-> "none", value |-> st.value, warnings |-> st.warnings, balances |-> st.balances]

\* The result carries, beside the returned value, the warnings printed and the
\* balance after each year.  An unanswered net-worth prompt leaves "" in
\* fixed_params, and adding it to year 0's surplus raises TypeError.
calculate_stock_assets(annual_income, annual_total_costs, fixed, sp) ==
    IF fixed.n_years >= 1 /\ fixed.initial_net_worth = NONE
    THEN [err |-> "TypeError"]
    ELSE CHOOSE r \in {stock_result(stock_loop(fixed.n_years, income, costs, fixed, sp["annual_stock_market_return"].v)) :
                         income \in {annual_income}, costs \in {annual_total_costs}} : TRUE

\* current_property_value after the first k entries of annual_housing_market_return
RECURSIVE property_value_after(_, _, _)
property_value_after(property_price, returns, k) ==
    IF k = 0 THEN property_price
    ELSE RMul(property_value_after(property_price, returns, k - 1), RAdd(One, returns[k]))

\* annual_income of run_homeowner_simulation
homeowner_income(fixed, annual_mortgage_principal_and_interest) ==
    IF Truthy(FixedGet(fixed, "annual_income"))
    THEN FixedGet(fixed, "annual_income")
    ELSE RDiv(annual_mortgage_principal_and_interest, fixed.mortgage_to_income_ratio)

\* mutant: the year at the loan term still pays principal and interest
current_year_total_housing_cost_through_term(i, fixed, sp, annual_mortgage_principal_and_interest) ==
    IF i <= fixed.loan_term_years
    THEN RAdd(sp["annual_homeowner_cost"].v[i + 1], annual_mortgage_principal_and_interest)
    ELSE sp["annual_homeowner_cost"].v[i + 1]

\* current_year_total_housing_cost of year i (0-based)
current_year_total_housing_cost(i, fixed, sp, annual_mortgage_principal_and_interest) ==
    IF i < fixed.loan_term_years
    THEN RAdd(sp["annual_homeowner_cost"].v[i + 1], annual_mortgage_principal_and_interest)
    ELSE sp["annual_homeowner_cost"].v[i + 1]

\* annual_total_homeowner_costs as the loop leaves it, before the down payment
homeowner_cost_loop(fixed, sp, annual_mortgage_principal_and_interest) ==
    [t \in 1..fixed.n_years |-> current_year_total_housing_cost(t - 1, fixed, sp, annual_mortgage_principal_and_interest)]

\* annual_total_homeowner_costs[0] += down_payment_amount
add_down_payment(costs, property_price, down_payment) == [costs EXCEPT ![1] = RAdd(@, RMul(property_price, down_payment))]

\* remaining_mortgage_balance of run_homeowner_simulation
remaining_balance_at_horizon(fixed, principal, interest_rate, n_payments_total) ==
    IF (fixed.loan_term_years - fixed.n_years) * MONTHS_PER_YEAR > 0
    THEN calculate_remaining_mortgage_balance(principal, interest_rate, n_payments_total,
             n_payments_total - (fixed.loan_term_years - fixed.n_years) * MONTHS_PER_YEAR)
    ELSE [err |-> "none", b |-> Zero]

homeowner_result(fixed, sp, costs, bal, income, stock) ==
    IF bal.err # "none" THEN [err |-> bal.err]
    ELSE IF stock.err # "none" THEN [err |-> stock.err]
    ELSE [err |-> "none",
          current_property_value |-> property_value_after(sp["property_price"].v, sp["annual_housing_market_return"].v, Len(sp["annual_housing_market_return"].v)),
          annual_total_homeowner_costs |-> costs,
          remaining_mortgage_balance |-> bal.b,
          annual_income |-> income,
          stock_assets |-> stock.value,
          warnings |-> stock.warnings,
          balances |-> stock.balances]

\* run_homeowner_simulation from line 199 on
homeowner_after_income(fixed, sp, pay, annual_pi, income) ==
    IF fixed.n_years <= 0 THEN [err |-> "IndexError"]
    ELSE CHOOSE r \in {homeowner_result(fixed, sp, costs, remaining_balance_at_horizon(fixed, pay.p, pay.i, pay.n),
                                        income, calculate_stock_assets(income, costs, fixed, sp)) :
                         costs \in {add_down_payment(homeowner_cost_loop(fixed, sp, annual_pi), sp["property_price"].v, fixed.down_payment)}} : TRUE

\* run_homeowner_simulation from line 190 on
homeowner_after_payment(fixed, sp, pay) ==
    IF pay.err # "none" THEN [err |-> pay.err]
    ELSE CHOOSE r \in {homeowner_after_income(fixed, sp, pay, annual_pi, homeowner_income(fixed, annual_pi)) :
                         annual_pi \in {RMul(pay.m, Num(MONTHS_PER_YEAR))}} : TRUE

run_homeowner_simulation(fixed, sp) ==
    CHOOSE r \in {homeowner_after_payment(fixed, sp, pay) :
                    pay \in {calculate_monthly_mortgage_principal_and_interest(
                                sp["property_price"].v, sp["mortgage_rate"].v,
                                fixed.loan_term_years, fixed.down_payment)}} : TRUE

\* current_year_total_rental_cost of year i (0-based)
current_year_total_rental_cost(i, sp) ==
    RSub(RAdd(sp["annual_rental_cost"].v[i + 1], sp["amortized_annual_moving_cost"].v[i + 1]), sp["amortized_annual_moving_saving"].v[i + 1])

\* annual_total_renter_costs
renter_costs(fixed, sp) == [t \in 1..fixed.n_years |-> current_year_total_rental_cost(t - 1, sp)]

renter_result(costs, stock) ==
    IF stock.err # "none" THEN [err |-> stock.err]
    ELSE [err |-> "none", stock_assets |-> stock.value, annual_total_renter_costs |-> costs,
          warnings |-> stock.warnings, balances |-> stock.balances]

\* mutant: the surplus is taken relative to the homeowner's costs
run_renter_simulation_homeowner_relative(fixed, sp, annual_total_homeowner_costs, annual_income) ==
    CHOOSE r \in {renter_result(costs, calculate_stock_assets(annual_income, annual_total_homeowner_costs, fixed, sp)) :
                    costs \in {renter_costs(fixed, sp)}} : TRUE

run_renter_simulation(fixed, sp, annual_total_homeowner_costs, annual_income) ==
    CHOOSE r \in {renter_result(costs, calculate_stock_assets(annual_income, costs, fixed, sp)) :
                    costs \in {renter_costs(fixed, sp)}} : TRUE

(***************************************************************************)
(* Liquidation and present value.                                          *)
(***************************************************************************)
long_term_capital_gains_tax_rate == Rat(15, 100)

selling_cost_rate == Rat(75, 1000)

ExemptMarried == 500000

ExemptSingle == 250000

property_capital_gain_exempt_amount(is_married) == IF is_married THEN Num(ExemptMarried) ELSE Num(ExemptSingle)

\* mutant: the taxable amount is not floored at 0
property_capital_gain_total_tax_unfloored(is_married, property_price, end_property_value) ==
    RMul(RSub(RSub(end_property_value, property_price), property_capital_gain_exempt_amount(is_married)),
         long_term_capital_gains_tax_rate)

property_capital_gain_total_tax(is_married, property_price, end_property_value) ==
    RMul(RMax(RSub(RSub(end_property_value, property_price), property_capital_gain_exempt_amount(is_married)), Zero),
         long_term_capital_gains_tax_rate)

liquidate_all_assets(is_married, property_price, end_property_value, remaining_mortgage_balance, homeowner_stock_assets, renter_stock_assets) ==
    [homeowner_net_worth |->
        RAdd(RSub(RSub(RSub(end_property_value, remaining_mortgage_balance),
                       RMul(end_property_value, selling_cost_rate)),
                  property_capital_gain_total_tax(is_married, property_price, end_property_value)),
             RMul(homeowner_stock_assets, RSub(One, long_term_capital_gains_tax_rate))),
     renter_net_worth |-> RMul(renter_stock_assets, RSub(One, long_term_capital_gains_tax_rate))]

\* current_amount /= (1.0 + inflation_value)
deflate_step(prev, inflation_value) ==
    IF prev.err # "none" THEN prev
    ELSE IF RAdd(One, inflation_value) = Zero THEN [err |-> "ZeroDivisionError"]
    ELSE [err |-> "none", v |-> RDiv(prev.v, RAdd(One, inflation_value))]

\* dollars_today once the last k entries of annual_inflation have been divided out
RECURSIVE deflate_last(_, _, _)
deflate_last(annual_inflation, amount, k) ==
    IF k = 0 THEN [err |-> "none", v |-> amount]
    ELSE CHOOSE r \in {deflate_step(prev, annual_inflation[Len(annual_inflation) - k + 1]) :
                         prev \in {deflate_last(annual_inflation, amount, k - 1)}} : TRUE

\* mutant: the first year's inflation is left out
dollars_today_from_second_year(sp, amount) == deflate_last(sp["annual_inflation"].v, amount, Len(sp["annual_inflation"].v) - 1)

dollars_today(sp, amount) == deflate_last(sp["annual_inflation"].v, amount, Len(sp["annual_inflation"].v))

(***************************************************************************)
(* Bounds and input sets.                                                  *)
(***************************************************************************)
MaxYears == 2

MaxSims == 2

MaxMove == 3

\* CONFIG["fixed_parameters"] with the keys simulate.py reads; the three
\* interactive overrides are absent until parse_input stores them.
FixedParameters(n_simulations, n_years, loan_term_years, down_payment, move) ==
    [n_simulations |-> n_simulations,
     n_years |-> n_years,
     down_payment |-> down_payment,
     loan_term_years |-> loan_term_years,
     mortgage_to_income_ratio |-> Rat(1, 4),
     n_years_rental_move |-> move,
     assume_good_loan_found |-> FALSE,
     assume_great_loan_found |-> FALSE,
     assume_good_housing_growth |-> FALSE,
     assume_great_housing_growth |-> FALSE,
     taxes_and_nonhousing_cost_of_living_to_income_ratio |-> Rat(1, 2),
     initial_net_worth |-> Num(4),
     married_at_simulation_end |-> FALSE,
     annual_income |-> NONE,
     mortgage_rate |-> NONE,
     property_price |-> NONE]

\* What the user may type at the four prompts (NONE: the prompt left empty;
\* the mortgage rate is already divided by 100)
Answers ==
    { [annual_income |-> a[1], initial_net_worth |-> a[2],
       mortgage_rate |-> a[3], property_price |-> a[4]] :
      a \in { <<NONE, NONE, NONE, NONE>>,
              <<NONE, Num(4), NONE, NONE>>,
              <<Zero, Num(4), NONE, NONE>>,
              <<Num(40), Num(4), NONE, NONE>>,
              <<NONE, Num(4), Zero, NONE>>,
              <<NONE, Num(4), Num(12), NONE>>,
              <<NONE, Zero, NONE, Num(5)>>,
              <<Num(40), Num(8), Num(12), Num(5)>> } }

\* The standard deviates the generator may yield during one trial, per name and
\* in order: the first vlen draws of the names of `varying` range over Zs, every
\* other draw is 0 (the mean).
DrawsOver(varying, Zs, vlen, len) ==
    { [name \in ParamNames |->
         [t \in 1..len |-> IF name \in varying /\ t <= vlen THEN v[name][t] ELSE 0]] :
      v \in [varying -> [1..vlen -> Zs]] }

\* the deviates of a trial in which the property is priced at nothing and the
\* market takes every year's whole balance
TotalLoss ==
    [name \in ParamNames |->
       [t \in 1..(MaxYears + 1) |->
          IF name \in {"property_price", "annual_stock_market_return"} THEN -2 ELSE 0]]

TrialDraws ==
    DrawsOver({"property_price", "annual_rental_cost"}, {-1, 1}, 1, MaxYears + 1) \cup {TotalLoss}

(***************************************************************************)
(* The program: main, and run_simulation step by step.                     *)
(***************************************************************************)
Init ==
    /\ pc = "parse_input"
    /\ fixed_params \in
         { FixedParameters(ns, ny, lt, dp, 2) :
             ns \in 0..MaxSims, ny \in 0..MaxYears, lt \in {-1, 0, 1},
             dp \in {Rat(1, 5), Rat(6, 5)} }
    /\ simulation_params = NONE
    /\ homeowner = NONE
    /\ renter = NONE
    /\ net_worth = NONE
    /\ homeowner_net_worths = <<>>
    /\ renter_net_worths = <<>>
    /\ returned = <<>>
    /\ report = NONE
    /\ n_draws = 0
    /\ error = "none"
    /\ out = NONE

\* where main's loop goes once `done` trials are collected
LoopOrAggregate(done, fixed) ==
    IF done < fixed.n_simulations THEN "generate" ELSE "aggregate"

\* parse_input: without --interactive nothing changes; with it the four answers
\* are stored in fixed_params.
ParseInput ==
    /\ pc = "parse_input"
    /\ \E interactive \in BOOLEAN, a \in Answers :
         fixed_params' =
            IF interactive
            THEN [fixed_params EXCEPT !.annual_income = a.annual_income,
                                     !.initial_net_worth = a.initial_net_worth,
                                     !.mortgage_rate = a.mortgage_rate,
                                     !.property_price = a.property_price]
            ELSE fixed_params
    /\ pc' = LoopOrAggregate(0, fixed_params)
    /\ UNCHANGED <<simulation_params, homeowner, renter, net_worth,
                   homeowner_net_worths, renter_net_worths, returned, report,
                   n_draws, error, out>>

Crash(e) ==
    /\ pc' = "crashed"
    /\ error' = e

\* run_simulation, line 287, with the generator's deviates taken from Draws
GenerateFrom(Draws) ==
    /\ pc = "generate"
    /\ \E z \in Draws :
         simulation_params' = generate_params(fixed_params, z)
    /\ n_draws' = n_draws + total_gauss_calls(fixed_params)
    /\ pc' = "homeowner"
    /\ UNCHANGED <<fixed_params, homeowner, renter, net_worth,
                   homeowner_net_worths, renter_net_worths, returned, report,
                   error, out>>

\* run_simulation, lines 293-294
RunHomeowner ==
    /\ pc = "homeowner"
    /\ \E r \in {run_homeowner_simulation(fixed_params, simulation_params)} :
           /\ homeowner' = r
           /\ IF r.err # "none" THEN Crash(r.err)
              ELSE pc' = "renter" /\ error' = error
    /\ UNCHANGED <<fixed_params, simulation_params, renter, net_worth,
                   homeowner_net_worths, renter_net_worths, returned, report,
                   n_draws, out>>

\* run_simulation, line 295
RunRenter ==
    /\ pc = "renter"
    /\ \E r \in {run_renter_simulation(fixed_params, simulation_params,
                                        homeowner.annual_total_homeowner_costs,
                                        homeowner.annual_income)} :
           /\ renter' = r
           /\ IF r.err # "none" THEN Crash(r.err)
              ELSE pc' = "liquidate" /\ error' = error
    /\ UNCHANGED <<fixed_params, simulation_params, homeowner, net_worth,
                   homeowner_net_worths, renter_net_worths, returned, report,
                   n_draws, out>>

\* run_simulation, lines 307-308
Liquidate ==
    /\ pc = "liquidate"
    /\ net_worth' = liquidate_all_assets(
                        fixed_params.married_at_simulation_end,
                        simulation_params["property_price"].v,
                        homeowner.current_property_value,
                        homeowner.remaining_mortgage_balance,
                        homeowner.stock_assets, renter.stock_assets)
    /\ pc' = "deflate"
    /\ UNCHANGED <<fixed_params, simulation_params, homeowner, renter,
                   homeowner_net_worths, renter_net_worths, returned, report,
                   n_draws, error, out>>

\* run_simulation, lines 314-320, and main's two appends, lines 330-332
Deflate ==
    /\ pc = "deflate"
    /\ \E h \in {dollars_today(simulation_params, net_worth.homeowner_net_worth)},
          r \in {dollars_today(simulation_params, net_worth.renter_net_worth)} :
           IF h.err # "none" \/ r.err # "none"
           THEN /\ Crash("ZeroDivisionError")
                /\ UNCHANGED <<homeowner_net_worths, renter_net_worths, returned>>
           ELSE /\ returned' = Append(returned, <<h.v, r.v>>)
                /\ homeowner_net_worths' = Append(homeowner_net_worths, h.v)
                /\ renter_net_worths' = Append(renter_net_worths, r.v)
                /\ pc' = LoopOrAggregate(Len(homeowner_net_worths) + 1, fixed_params)
                /\ error' = error
    /\ UNCHANGED <<fixed_params, simulation_params, homeowner, renter, net_worth,
                   report, n_draws, out>>

RECURSIVE RSum(_, _)
RSum(xs, k) == IF k = 0 THEN Zero ELSE RAdd(RSum(xs, k - 1), xs[k])

\* statistics.mean of a non-empty list
mean(xs) == RDiv(RSum(xs, Len(xs)), Num(Len(xs)))

\* sum([(homeowner_net_worth > renter_net_worths[i]) for i, ... in enumerate(...)])
RECURSIVE count_homeowner_beats_renter(_, _, _)
count_homeowner_beats_renter(hs, rs, k) ==
    IF k = 0 THEN 0
    ELSE count_homeowner_beats_renter(hs, rs, k - 1)
         + (IF RLt(rs[k], hs[k]) THEN 1 ELSE 0)

\* mutant: the two means are compared instead of the trials pairwise
homeowner_beats_renter_rate_of_means(hs, rs, n_simulations) == Rat(IF RLt(mean(rs), mean(hs)) THEN Len(hs) ELSE 0, n_simulations)

homeowner_beats_renter_rate(hs, rs, n_simulations) == Rat(count_homeowner_beats_renter(hs, rs, Len(hs)), n_simulations)

\* main, lines 335-341: statistics.mean raises StatisticsError on an empty list
Aggregate ==
    /\ pc = "aggregate"
    /\ IF Len(homeowner_net_worths) = 0
       THEN Crash("StatisticsError") /\ report' = report
       ELSE /\ report' =
                 [homeowner_net_worth_mean |-> mean(homeowner_net_worths),
                  renter_net_worth_mean |-> mean(renter_net_worths),
                  homeowner_beats_renter_rate |->
                      homeowner_beats_renter_rate(homeowner_net_worths,
                                                  renter_net_worths,
                                                  fixed_params.n_simulations)]
            /\ pc' = "done"
            /\ error' = error
    /\ UNCHANGED <<fixed_params, simulation_params, homeowner, renter, net_worth,
                   homeowner_net_worths, renter_net_worths, returned, n_draws,
                   out>>

GenerateParams == GenerateFrom(TrialDraws)

Next ==
    \/ ParseInput
    \/ GenerateParams
    \/ RunHomeowner
    \/ RunRenter
    \/ Liquidate
    \/ Deflate
    \/ Aggregate

Spec == Init /\ [][Next]_vars

(***************************************************************************)
(* The parameter sampler on its own: generate_params for one trial, over   *)
(* horizons, move intervals, scenario flags, overrides and draws.          *)
(***************************************************************************)
MaxParamYears == 4

\* assume_good_loan_found, assume_great_loan_found, assume_good_housing_growth,
\* assume_great_housing_growth
Scenarios ==
    { <<FALSE, FALSE, FALSE, FALSE>>, <<TRUE, FALSE, FALSE, FALSE>>,
      <<TRUE, TRUE, FALSE, FALSE>>, <<FALSE, FALSE, TRUE, FALSE>>,
      <<FALSE, FALSE, TRUE, TRUE>> }

\* mortgage_rate and property_price as parse_input may have stored them
SamplerOverrides == { <<NONE, NONE>>, <<Zero, NONE>>, <<Num(12), Num(5)>> }

SamplerFixed(n_years, move, sc, ov) ==
    [FixedParameters(1, n_years, 1, Rat(1, 5), move) EXCEPT
        !.assume_good_loan_found = sc[1], !.assume_great_loan_found = sc[2],
        !.assume_good_housing_growth = sc[3], !.assume_great_housing_growth = sc[4],
        !.mortgage_rate = ov[1], !.property_price = ov[2]]

SeedNames == {"annual_rental_market_price", "annual_rental_cost"}

GrowthNames == {"annual_rental_market_price_growth_rate", "annual_rental_cost_growth_rate"}

\* The deviates of one trial with the two seeds and the first n - 1 draws of the
\* two growth-rate series varying
SeriesDraws(n) ==
    { [name \in ParamNames |->
         [t \in 1..(MaxParamYears + 1) |->
            IF name \in SeedNames /\ t = 1 THEN a[name]
            ELSE IF name \in GrowthNames /\ t <= n - 1 THEN g[name][t]
            ELSE 0]] :
      a \in [SeedNames -> {0, 1}], g \in [GrowthNames -> [1..(n - 1) -> {-1, 0}]] }

InitParams ==
    /\ pc = "generate"
    /\ fixed_params \in
         { SamplerFixed(ny, mv, sc, ov) :
             ny \in 1..MaxParamYears, mv \in 1..MaxMove,
             sc \in Scenarios, ov \in SamplerOverrides }
    /\ simulation_params = NONE
    /\ homeowner = NONE
    /\ renter = NONE
    /\ net_worth = NONE
    /\ homeowner_net_worths = <<>>
    /\ renter_net_worths = <<>>
    /\ returned = <<>>
    /\ report = NONE
    /\ n_draws = 0
    /\ error = "none"
    /\ out = NONE

SampleParams == GenerateFrom(SeriesDraws(fixed_params.n_years))

NextParams == SampleParams

SpecParams == InitParams /\ [][NextParams]_vars

\* generate_params has returned
Sampled == simulation_params # NONE

n_years == fixed_params.n_years

IsMoveYear(y) == (y + 1) % fixed_params.n_years_rental_move = 0

\* value[y] == value[y - 1] * (1 + growth_rate[y - 1]), years 0-based
Compounds(name, y) ==
    simulation_params[name].v[y + 1] =
        RMul(simulation_params[name].v[y],
             RAdd(One, simulation_params[GrowthRateName[name]].v[y]))

\* C4: in the series generate_params expands from a seed and a growth-rate
\* series, every entry after the first is the previous entry times
\* (1 + growth rate of the previous year), except that the rental cost of a
\* move year equals the rental market price of that same year; the year after
\* a move compounds from the reset value.
C4_GrowthChain ==
    Sampled =>
        /\ \A y \in 1..(n_years - 1) : Compounds("annual_rental_market_price", y)
        /\ \A y \in 1..(n_years - 1) :
              IF IsMoveYear(y)
              THEN simulation_params["annual_rental_cost"].v[y + 1] =
                       simulation_params["annual_rental_market_price"].v[y + 1]
              ELSE Compounds("annual_rental_cost", y)

\* a reset to an anchor that differs from the seed, from the other years'
\* anchors and from the compounded value, followed by a compounding year
C4_Witness ==
    /\ Sampled
    /\ n_years = 4
    /\ fixed_params.n_years_rental_move = 2
    /\ simulation_params["annual_rental_cost"].v[2] = simulation_params["annual_rental_market_price"].v[2]
    /\ simulation_params["annual_rental_cost"].v[2] # simulation_params["annual_rental_market_price"].v[1]
    /\ simulation_params["annual_rental_cost"].v[2] # simulation_params["annual_rental_market_price"].v[3]
    /\ ~Compounds("annual_rental_cost", 1)
    /\ Compounds("annual_rental_cost", 2)
    /\ simulation_params["annual_rental_cost"].v[3] # simulation_params["annual_rental_cost"].v[2]

(***************************************************************************)
(* The mortgage model on its own: the two formulas called directly, and    *)
(* the homeowner projection, from a trial's sampled parameters.            *)
(***************************************************************************)
\* loan_term_years with the deviate of the mortgage-rate draw (rates -6, 0, 6,
\* 12 and 24 percent a year: monthly rates -1/2, 0, 1/2, 1 and 2)
TermAndRate ==
    { <<1, -3>>, <<1, -2>>, <<1, -1>>, <<1, 0>>, <<1, 2>>,
      <<2, -3>>, <<2, -2>>, <<2, 0>> }

MortgageDraws(rate_z) ==
    { [name \in ParamNames |->
         [t \in 1..(MaxYears + 1) |->
            IF name = "property_price" THEN price_z
            ELSE IF name = "mortgage_rate" THEN rate_z
            ELSE 0]] : price_z \in {-1, 1} }

MortgageFixed(ny, term, dp) == [FixedParameters(1, ny, term, dp, 2) EXCEPT !.annual_income = Num(20)]

InitMortgage ==
    /\ pc = "homeowner"
    /\ \E ny \in 1..MaxYears, tr \in TermAndRate, dp \in {Zero, Rat(1, 5), Rat(1, 2)} :
          /\ fixed_params = MortgageFixed(ny, tr[1], dp)
          /\ simulation_params \in
               { generate_params(MortgageFixed(ny, tr[1], dp), z) : z \in MortgageDraws(tr[2]) }
    /\ homeowner = NONE
    /\ renter = NONE
    /\ net_worth = NONE
    /\ homeowner_net_worths = <<>>
    /\ renter_net_worths = <<>>
    /\ returned = <<>>
    /\ report = NONE
    /\ n_draws = 0
    /\ error = "none"
    /\ out = NONE

\* principal, monthly rate and number of payments, as simulate.py:131-133 sets them
Principal == RMul(simulation_params["property_price"].v, RSub(One, fixed_params.down_payment))

MonthlyRate == RDiv(simulation_params["mortgage_rate"].v, Num(MONTHS_PER_YEAR))

NPayments == fixed_params.loan_term_years * MONTHS_PER_YEAR

CallPayment ==
    /\ pc = "homeowner"
    /\ out' = [fn |-> "payment",
               r |-> calculate_monthly_mortgage_principal_and_interest(
                         simulation_params["property_price"].v,
                         simulation_params["mortgage_rate"].v,
                         fixed_params.loan_term_years, fixed_params.down_payment)]
    /\ pc' = "called"
    /\ UNCHANGED <<fixed_params, simulation_params, homeowner, renter, net_worth,
                   homeowner_net_worths, renter_net_worths, returned, report,
                   n_draws, error>>

CallBalance ==
    /\ pc = "homeowner"
    /\ \E s \in 0..NPayments :
         out' = [fn |-> "balance", s |-> s,
                 r |-> calculate_remaining_mortgage_balance(Principal, MonthlyRate, NPayments, s)]
    /\ pc' = "called"
    /\ UNCHANGED <<fixed_params, simulation_params, homeowner, renter, net_worth,
                   homeowner_net_worths, renter_net_worths, returned, report,
                   n_draws, error>>

NextMortgage ==
    \/ CallPayment
    \/ CallBalance
    \/ RunHomeowner

SpecMortgage == InitMortgage /\ [][NextMortgage]_vars

Called(fn) == pc = "called" /\ out.fn = fn

(***************************************************************************)
(* C2                                                                      *)
(***************************************************************************)
\* C2, as claimed: for a mortgage rate of exactly 0 neither function fails;
\* the payment is price * (1 - d) / (term * 12) and the remaining balance
\* after s of n payments is P * (1 - s / n).
C2_ZeroRateHandled ==
    (simulation_params["mortgage_rate"].v = Zero /\ pc = "called") =>
        /\ out.r.err = "none"
        /\ out.fn = "payment" => out.r.m = RDiv(Principal, Num(NPayments))
        /\ out.fn = "balance" => out.r.b = RMul(Principal, RSub(One, Rat(out.s, NPayments)))

(***************************************************************************)
(* C9                                                                      *)
(***************************************************************************)
HomeownerReturned == pc = "renter" /\ homeowner.err = "none"

\* C9: the balance run_homeowner_simulation returns is 0 when n_years >=
\* loan_term_years and otherwise calculate_remaining_mortgage_balance(principal,
\* monthly rate, loan_term_years * 12, n_years * 12); for a positive monthly
\* rate that function gives the principal at 0 elapsed payments, 0 at n, and a
\* value strictly between 0 and the principal in between; the returned balance
\* lies in [0, principal).
C9_RemainingBalance ==
    /\ HomeownerReturned =>
         /\ homeowner.remaining_mortgage_balance =
              (IF n_years >= fixed_params.loan_term_years THEN Zero
               ELSE calculate_remaining_mortgage_balance(
                        Principal, MonthlyRate, NPayments, n_years * MONTHS_PER_YEAR).b)
         /\ RLe(Zero, homeowner.remaining_mortgage_balance)
         /\ RLt(homeowner.remaining_mortgage_balance, Principal)
    /\ (Called("balance") /\ RLt(Zero, MonthlyRate)) =>
         /\ out.r.err = "none"
         /\ out.s = 0 => out.r.b = Principal
         /\ out.s = NPayments => out.r.b = Zero
         /\ (0 < out.s /\ out.s < NPayments) => (RLt(Zero, out.r.b) /\ RLt(out.r.b, Principal))

\* the horizon ends before the loan term and a balance is still owed
C9_Witness ==
    /\ HomeownerReturned
    /\ n_years < fixed_params.loan_term_years
    /\ RLt(Zero, MonthlyRate)
    /\ RLt(Zero, homeowner.remaining_mortgage_balance)
    /\ RLt(homeowner.remaining_mortgage_balance, Principal)

(***************************************************************************)
(* The two projections on their own: calculate_stock_assets and            *)
(* run_renter_simulation called with chosen cost sequences, and the        *)
(* projections of a trial.                                                 *)
(***************************************************************************)
ProjectionDraws ==
    DrawsOver({"annual_stock_market_return", "annual_rental_cost"}, {-1, 1}, MaxYears, MaxYears + 1)

ProjectionFixed(ny, income, worth) ==
    [FixedParameters(1, ny, 1, Rat(1, 5), 2) EXCEPT !.annual_income = income, !.initial_net_worth = worth]

\* cost sequences a caller may pass
CostSequences(ny) == [1..ny -> {Num(2), Num(30)}]

InitProjections ==
    /\ pc = "homeowner"
    /\ \E ny \in 1..MaxYears, income \in {Num(8), Num(20), Num(40)}, worth \in {Zero, Num(4)} :
          /\ fixed_params = ProjectionFixed(ny, income, worth)
          /\ simulation_params \in
               { generate_params(ProjectionFixed(ny, income, worth), z) : z \in ProjectionDraws }
    /\ homeowner = NONE
    /\ renter = NONE
    /\ net_worth = NONE
    /\ homeowner_net_worths = <<>>
    /\ renter_net_worths = <<>>
    /\ returned = <<>>
    /\ report = NONE
    /\ n_draws = 0
    /\ error = "none"
    /\ out = NONE

CallStockAssets ==
    /\ pc = "homeowner"
    /\ \E c \in CostSequences(fixed_params.n_years) :
         out' = [fn |-> "stock", costs |-> c, income |-> fixed_params.annual_income,
                 r |-> calculate_stock_assets(fixed_params.annual_income, c, fixed_params, simulation_params)]
    /\ pc' = "called"
    /\ UNCHANGED <<fixed_params, simulation_params, homeowner, renter, net_worth,
                   homeowner_net_worths, renter_net_worths, returned, report,
                   n_draws, error>>

CallRenter ==
    /\ pc = "homeowner"
    /\ \E c \in CostSequences(fixed_params.n_years) :
         out' = [fn |-> "renter", costs |-> c, income |-> fixed_params.annual_income,
                 r |-> run_renter_simulation(fixed_params, simulation_params, c, fixed_params.annual_income)]
    /\ pc' = "called"
    /\ UNCHANGED <<fixed_params, simulation_params, homeowner, renter, net_worth,
                   homeowner_net_worths, renter_net_worths, returned, report,
                   n_draws, error>>

NextProjections ==
    \/ CallStockAssets
    \/ CallRenter
    \/ RunHomeowner
    \/ RunRenter

SpecProjections == InitProjections /\ [][NextProjections]_vars

\* The surplus of year t (1-based) against a cost sequence, from the inputs
SurplusOf(t, income, costs) ==
    IF t = 1
    THEN RAdd(RSub(RMul(income, RSub(One, fixed_params.taxes_and_nonhousing_cost_of_living_to_income_ratio)), costs[t]), fixed_params.initial_net_worth)
    ELSE RSub(RMul(income, RSub(One, fixed_params.taxes_and_nonhousing_cost_of_living_to_income_ratio)), costs[t])

BalanceBefore(t, balances) == IF t = 1 THEN Zero ELSE balances[t - 1]

GrowthOf(t) == RAdd(One, simulation_params["annual_stock_market_return"].v[t])

\* A result of the equity loop obeys the contribution rule against costs:
\* every year is there; a year whose surplus is not positive has its warning,
\* adds nothing and still compounds; a year of positive surplus adds it.
FollowsContributionRule(final, balances, warnings, income, costs) ==
    /\ Len(balances) = n_years
    /\ final = balances[n_years]
    /\ \A t \in 1..n_years :
         /\ RLe(SurplusOf(t, income, costs), Zero) =>
              /\ \E k \in 1..Len(warnings) : warnings[k] = t - 1
              /\ balances[t] = RMul(BalanceBefore(t, balances), GrowthOf(t))
         /\ RLt(Zero, SurplusOf(t, income, costs)) =>
              /\ \A k \in 1..Len(warnings) : warnings[k] # t - 1
              /\ balances[t] = RMul(RAdd(BalanceBefore(t, balances), SurplusOf(t, income, costs)), GrowthOf(t))

\* the renter's own total cost of each year, from the sampled series
OwnRentalCosts ==
    [t \in 1..n_years |->
       RSub(RAdd(simulation_params["annual_rental_cost"].v[t],
                 simulation_params["amortized_annual_moving_cost"].v[t]),
            simulation_params["amortized_annual_moving_saving"].v[t])]

C7_NegativeSurplus ==
    /\ Called("stock") =>
         /\ out.r.err = "none"
         /\ FollowsContributionRule(out.r.value, out.r.balances, out.r.warnings, out.income, out.costs)
    /\ pc \in {"renter", "liquidate"} =>
         FollowsContributionRule(homeowner.stock_assets, homeowner.balances, homeowner.warnings,
                                 homeowner.annual_income, homeowner.annual_total_homeowner_costs)
    /\ pc = "liquidate" =>
         FollowsContributionRule(renter.stock_assets, renter.balances, renter.warnings,
                                 homeowner.annual_income, renter.annual_total_renter_costs)

\* a balance built in year 0 meets a shortfall in year 1 and still compounds
C7_Witness ==
    /\ Called("stock")
    /\ n_years = 2
    /\ RLt(Zero, out.r.balances[1])
    /\ RLt(SurplusOf(2, out.income, out.costs), Zero)
    /\ out.r.warnings = <<1>>
    /\ out.r.balances[2] # out.r.balances[1]
    /\ RLt(Zero, out.r.value)

(***************************************************************************)
(* C5                                                                      *)
(***************************************************************************)
TrialStarted == pc \in {"homeowner", "renter", "liquidate", "deflate"}

\* C5, as claimed: an override present for mortgage rate, property price or
\* annual income is the value every trial uses, 0 included; no draw and no
\* derivation replaces it.
C5_OverrideUsed ==
    /\ (TrialStarted /\ fixed_params.mortgage_rate # NONE) =>
          simulation_params["mortgage_rate"].v = fixed_params.mortgage_rate
    /\ (TrialStarted /\ fixed_params.property_price # NONE) =>
          simulation_params["property_price"].v = fixed_params.property_price
    /\ (pc \in {"renter", "liquidate", "deflate"} /\ fixed_params.annual_income # NONE) =>
          homeowner.annual_income = fixed_params.annual_income

(***************************************************************************)
(* C6                                                                      *)
(***************************************************************************)
BadConfiguration ==
    \/ fixed_params.n_years <= 0
    \/ fixed_params.loan_term_years <= 0
    \/ RLt(fixed_params.down_payment, Zero)
    \/ RLe(One, fixed_params.down_payment)

\* C6, as claimed: with a non-positive horizon or loan term, or a down payment
\* outside [0, 1), no trial starts and no random draw is made.
C6_BadConfigurationRejected ==
    BadConfiguration => (n_draws = 0 /\ ~TrialStarted /\ pc # "done")

(***************************************************************************)
(* C8                                                                      *)
(***************************************************************************)
Wins == {i \in 1..Len(returned) : RLt(returned[i][2], returned[i][1])}

\* C8: after N >= 1 trials both collections hold N entries, entry i of both
\* from trial i, and the win rate reported is the number of trials whose
\* homeowner figure is strictly greater than the renter figure of the same
\* trial, over N; it lies in [0, 1].
C8_WinRate ==
    pc = "done" =>
        /\ fixed_params.n_simulations >= 1
        /\ Len(returned) = fixed_params.n_simulations
        /\ Len(homeowner_net_worths) = fixed_params.n_simulations
        /\ Len(renter_net_worths) = fixed_params.n_simulations
        /\ \A i \in 1..fixed_params.n_simulations :
             returned[i] = <<homeowner_net_worths[i], renter_net_worths[i]>>
        /\ report.homeowner_beats_renter_rate = Rat(Cardinality(Wins), fixed_params.n_simulations)
        /\ RLe(Zero, report.homeowner_beats_renter_rate)
        /\ RLe(report.homeowner_beats_renter_rate, One)

\* two trials, the first won by the homeowner and the second a tie
C8_Witness ==
    /\ pc = "done"
    /\ Len(returned) = 2
    /\ RLt(returned[1][2], returned[1][1])
    /\ returned[2][1] = returned[2][2]
    /\ report.homeowner_beats_renter_rate = Rat(1, 2)

(***************************************************************************)
(* liquidate_all_assets on its own, called with amounts in dollars.        *)
(***************************************************************************)
LiquidationArguments ==
    [is_married : BOOLEAN,
     property_price : {Num(100000), Num(300000)},
     end_property_value : {Num(50000), Num(400000), Num(700000), Num(900000)},
     remaining_mortgage_balance : {Zero, Num(80000)},
     homeowner_stock_assets : {Zero, Num(10000)},
     renter_stock_assets : {Zero, Num(20000)}]

InitLiquidate ==
    /\ pc = "liquidate_all_assets"
    /\ out \in LiquidationArguments
    /\ fixed_params = NONE
    /\ simulation_params = NONE
    /\ homeowner = NONE
    /\ renter = NONE
    /\ net_worth = NONE
    /\ homeowner_net_worths = <<>>
    /\ renter_net_worths = <<>>
    /\ returned = <<>>
    /\ report = NONE
    /\ n_draws = 0
    /\ error = "none"

CallLiquidate ==
    /\ pc = "liquidate_all_assets"
    /\ net_worth' = liquidate_all_assets(out.is_married, out.property_price, out.end_property_value,
                                         out.remaining_mortgage_balance, out.homeowner_stock_assets,
                                         out.renter_stock_assets)
    /\ pc' = "liquidated"
    /\ UNCHANGED <<fixed_params, simulation_params, homeowner, renter,
                   homeowner_net_worths, renter_net_worths, returned, report,
                   n_draws, error, out>>

NextLiquidate == CallLiquidate

SpecLiquidate == InitLiquidate /\ [][NextLiquidate]_vars

(***************************************************************************)
(* C10                                                                     *)
(***************************************************************************)
\* the gain above the exemption, in whole dollars, from the arguments
TaxableGain ==
    IF out.end_property_value[1] - out.property_price[1] - (IF out.is_married THEN 500000 ELSE 250000) > 0
    THEN out.end_property_value[1] - out.property_price[1] - (IF out.is_married THEN 500000 ELSE 250000)
    ELSE 0

\* what the sale nets before the capital-gains tax on the property
NetBeforePropertyTax ==
    RAdd(RSub(RSub(out.end_property_value, out.remaining_mortgage_balance),
              RMul(Rat(3, 40), out.end_property_value)),
         RMul(Rat(17, 20), out.homeowner_stock_assets))

\* C10: homeowner net worth = end_value - remaining_balance - 0.075 * end_value
\* - 0.15 * max(end_value - purchase_price - exemption, 0) + 0.85 * homeowner
\* equity, the exemption 500,000 if married else 250,000; renter net worth =
\* 0.85 * renter equity, whatever the property and mortgage inputs; the tax on
\* the property is never negative.
C10_Liquidation ==
    pc = "liquidated" =>
        /\ net_worth.homeowner_net_worth = RSub(NetBeforePropertyTax, RMul(Rat(3, 20), Num(TaxableGain)))
        /\ RLe(net_worth.homeowner_net_worth, NetBeforePropertyTax)
        /\ net_worth.renter_net_worth = RMul(Rat(17, 20), out.renter_stock_assets)
        /\ \A a \in LiquidationArguments :
             a.renter_stock_assets = out.renter_stock_assets =>
                 liquidate_all_assets(a.is_married, a.property_price, a.end_property_value,
                                      a.remaining_mortgage_balance, a.homeowner_stock_assets,
                                      a.renter_stock_assets).renter_net_worth = net_worth.renter_net_worth

\* a property sold at a loss: no tax and no credit
C10_Witness ==
    /\ pc = "liquidated"
    /\ RLt(out.end_property_value, out.property_price)
    /\ net_worth.homeowner_net_worth = NetBeforePropertyTax
    /\ RLt(Zero, net_worth.renter_net_worth)

(***************************************************************************)
(* The present-value step of a trial on its own: run_simulation from line  *)
(* 314 with chosen nominal net worths and a sampled inflation sequence     *)
(* (yearly inflation -3/2, -1, -1/2, 1/2 or 1), and main's report.         *)
(***************************************************************************)
InflationDraws == DrawsOver({"annual_inflation"}, {-5, -4, -3, -1, 0}, MaxYears, MaxYears + 1)

NominalAmounts == {Num(-3), Zero, Num(7), Num(100)}

InitDeflate ==
    /\ pc = "deflate"
    /\ \E ny \in 1..MaxYears :
          /\ fixed_params = FixedParameters(1, ny, 1, Rat(1, 5), 2)
          /\ simulation_params \in
               { generate_params(FixedParameters(1, ny, 1, Rat(1, 5), 2), z) : z \in InflationDraws }
    /\ net_worth \in [homeowner_net_worth : NominalAmounts, renter_net_worth : NominalAmounts]
    /\ homeowner = NONE
    /\ renter = NONE
    /\ homeowner_net_worths = <<>>
    /\ renter_net_worths = <<>>
    /\ returned = <<>>
    /\ report = NONE
    /\ n_draws = 0
    /\ error = "none"
    /\ out = NONE

NextDeflate ==
    \/ Deflate
    \/ Aggregate

SpecDeflate == InitDeflate /\ [][NextDeflate]_vars

(***************************************************************************)
(* C11                                                                     *)
(***************************************************************************)
Inflation == simulation_params["annual_inflation"].v

\* the product of (1 + inflation[y]) over the first k years
RECURSIVE InflationFactor(_)
InflationFactor(k) == IF k = 0 THEN One ELSE RMul(InflationFactor(k - 1), RAdd(One, Inflation[k]))

\* an amount of today carried forward through the first k years
RECURSIVE InflateForward(_, _)
InflateForward(amount, k) == IF k = 0 THEN amount ELSE RMul(InflateForward(amount, k - 1), RAdd(One, Inflation[k]))

NoYearOfTotalDeflation == \A y \in 1..Len(Inflation) : Inflation[y] # Num(-1)

TrialReturned == pc \in {"generate", "aggregate", "done"} /\ Len(returned) >= 1

\* C11: when no entry of the trial's inflation sequence is -1 the trial
\* returns, and both figures it returns are the nominal net worths divided by
\* one factor, the product of (1 + inflation[y]) over every year of the
\* sequence; carried forward through the same sequence each returned figure
\* gives the nominal amount back.
C11_PresentValue ==
    /\ (NoYearOfTotalDeflation /\ pc # "deflate") => TrialReturned
    /\ TrialReturned =>
         /\ NoYearOfTotalDeflation
         /\ Len(Inflation) = n_years
         /\ returned[Len(returned)][1] = RDiv(net_worth.homeowner_net_worth, InflationFactor(n_years))
         /\ returned[Len(returned)][2] = RDiv(net_worth.renter_net_worth, InflationFactor(n_years))
         /\ InflateForward(returned[Len(returned)][1], n_years) = net_worth.homeowner_net_worth
         /\ InflateForward(returned[Len(returned)][2], n_years) = net_worth.renter_net_worth

\* two years of different inflation (factor 3) and two different nominal figures
C11_Witness ==
    /\ TrialReturned
    /\ n_years = 2
    /\ Inflation = <<Rat(1, 2), One>>
    /\ net_worth.homeowner_net_worth = Num(100)
    /\ net_worth.renter_net_worth = Num(7)
    /\ returned[1] = <<Rat(100, 3), Rat(7, 3)>>

(***************************************************************************)
(* C12                                                                     *)
(***************************************************************************)
\* twelve monthly payments of principal and interest
AnnualPrincipalAndInterest ==
    RMul(calculate_monthly_mortgage_principal_and_interest(
             simulation_params["property_price"].v, simulation_params["mortgage_rate"].v,
             fixed_params.loan_term_years, fixed_params.down_payment).m, Num(MONTHS_PER_YEAR))

DownPaymentAmount == RMul(simulation_params["property_price"].v, fixed_params.down_payment)

\* C12: the cost sequence run_homeowner_simulation returns has n_years
\* entries; the entry of year t (0-based) is annual_homeowner_cost[t], plus the
\* annual principal and interest exactly when t < loan_term_years, plus
\* price * down_payment exactly when t = 0.
C12_HomeownerCosts ==
    HomeownerReturned =>
        /\ Len(homeowner.annual_total_homeowner_costs) = n_years
        /\ \A t \in 0..(n_years - 1) :
             homeowner.annual_total_homeowner_costs[t + 1] =
                RAdd(RAdd(simulation_params["annual_homeowner_cost"].v[t + 1],
                          IF t < fixed_params.loan_term_years THEN AnnualPrincipalAndInterest ELSE Zero),
                     IF t = 0 THEN DownPaymentAmount ELSE Zero)

\* a horizon running one year past the loan term, with a down payment: year 0
\* carries all three parts, year 1 the carrying cost alone
C12_Witness ==
    /\ HomeownerReturned
    /\ n_years = fixed_params.loan_term_years + 1
    /\ RLt(Zero, DownPaymentAmount)
    /\ RLt(Zero, AnnualPrincipalAndInterest)
    /\ homeowner.annual_total_homeowner_costs[n_years] = simulation_params["annual_homeowner_cost"].v[n_years]
    /\ RLt(RAdd(simulation_params["annual_homeowner_cost"].v[1], DownPaymentAmount),
           homeowner.annual_total_homeowner_costs[1])

(***************************************************************************)
(* C13                                                                     *)
(***************************************************************************)
\* C13, as claimed: the rental cost is reset to the market price exactly at
\* the year indices that are positive multiples of n_years_rental_move, and
\* compounds from the previous year's cost in every other year, so that every
\* tenancy, the first included, lasts n_years_rental_move years.
C13_TenancyLength ==
    Sampled =>
        \A y \in 1..(n_years - 1) :
            IF y % fixed_params.n_years_rental_move = 0
            THEN simulation_params["annual_rental_cost"].v[y + 1] =
                     simulation_params["annual_rental_market_price"].v[y + 1]
            ELSE Compounds("annual_rental_cost", y)

====
